---------------------------- MODULE Spec2Model ----------------------------
(***************************************************************************)
(* A model of the paw-app dashboard (src/dashboard/app.py): the code store *)
(* under APPS_CODE_DIR, the container runtime reached through docker-py,   *)
(* and the Flask handlers index, new_app, edit_app, delete_app, get_logs   *)
(* with the helpers get_random_name, get_apps and start_app_container.     *)
(*                                                                         *)
(* Every handler is split at its file-system and runtime calls, so that    *)
(* the states inside a handler are states of the model.  Texts are TLA+    *)
(* strings, built and taken apart with \o, Len and SubSeq.                 *)
(***************************************************************************)
EXTENDS Integers, Sequences, FiniteSets, TLC

(***************************************************************************)
(* Bounds of the model.                                                    *)
(***************************************************************************)
\* how many draws of get_random_name the model explores
MaxNames == 1
\* how many submitted code texts (request.form['code']) the model explores
MaxCodes == 1

(***************************************************************************)
(* Texts.                                                                  *)
(***************************************************************************)
\* A TLA+ string cannot hold U+0060; the apostrophe, which occurs in no name,
\* domain or label of the program, stands for the backquote of the f-strings
\* on lines 102 and 106.
BACKTICK == "'"

Char(s, i) == SubSeq(s, i, i)

StartsWith(s, p) == Len(s) >= Len(p) /\ SubSeq(s, 1, Len(p)) = p

DigitChars == <<"0","1","2","3","4","5","6","7","8","9">>

\* str(k) of a non-negative int, as the f-string on line 32 formats it.
RECURSIVE str(_)
str(k) == IF k < 10 THEN DigitChars[k + 1]
          ELSE str(k \div 10) \o DigitChars[(k % 10) + 1]

(***************************************************************************)
(* Configuration (lines 14-27).                                            *)
(***************************************************************************)
\* BASE_DOMAIN is read from the environment; "localhost" is the default.
Domains == {"localhost", "paw.example.org"}

APP_PY == "app.py"

\* DEFAULT_APP_CODE, lines 17-27, with the text of each line shortened: what
\* matters to the file calls is that its line ends are "\n" and none is "\r".
DEFAULT_APP_CODE == "from flask import Flask\napp = Flask(__name__)\n"

(***************************************************************************)
(* get_random_name (lines 29-32).                                          *)
(***************************************************************************)
adjectives ==
    <<"bright", "cold", "dark", "great", "high", "little", "new", "old", "shiny", "young">>

nouns ==
    <<"river", "sea", "sky", "sun", "moon", "star", "tree", "wind", "fire", "snow">>

RANDINT_LO == 100

RANDINT_HI == 999

\* a get_random_name that leaves the number out
GetRandomNameNoNumber(a, n, k) == adjectives[a] \o "-" \o nouns[n]

\* the result of get_random_name when random.choice picks adjectives[a] and
\* nouns[n] and random.randint(100, 999) returns k
get_random_name(a, n, k) == adjectives[a] \o "-" \o nouns[n] \o "-" \o str(k)

\* every outcome of the three random draws
AllDraws ==
    {<<a, n, k>> : a \in 1..Len(adjectives), n \in 1..Len(nouns), k \in RANDINT_LO..RANDINT_HI}

\* the draws the model explores: the i-th is spread over the lists and over
\* both ends of the number range
Draw(i) ==
    << ((i - 1) % Len(adjectives)) + 1,
       ((3 * (i - 1)) % Len(nouns)) + 1,
       RANDINT_LO + (((i - 1) * (RANDINT_HI - RANDINT_LO)) % (RANDINT_HI - RANDINT_LO + 1)) >>

Draws == {Draw(i) : i \in 1..MaxNames}

NamePool == {get_random_name(d[1], d[2], d[3]) : d \in Draws}

\* an app_name of a request URL that get_random_name never produced
FOREIGN == "no-such-app"

\* the app_name values of the routes /app/<app_name>/...
Targets == NamePool \cup {FOREIGN}

(***************************************************************************)
(* Names, urls and labels derived from an app name.                        *)
(***************************************************************************)
\* a container name without its prefix
ContainerNameBare(app_name) == app_name

\* f"user-app-{app_name}" (lines 44, 91, 149, 164)
ContainerName(app_name) == "user-app-" \o app_name

\* f"{app_name}.{BASE_DOMAIN}"
HostName(app_name, d) == app_name \o "." \o d

\* lines 50-51
Url(app_name, d) == "http://" \o HostName(app_name, d)

HttpsUrl(app_name, d) == "https://" \o HostName(app_name, d)

\* a rule that leaves the base domain out
HostRuleBare(app_name, d) == "Host(" \o BACKTICK \o app_name \o BACKTICK \o ")"

\* f"Host(`{app_name}.{BASE_DOMAIN}`)" (lines 102, 106)
HostRule(app_name, d) == "Host(" \o BACKTICK \o HostName(app_name, d) \o BACKTICK \o ")"

\* the dict of lines 100-109, as the set of its (key, value) pairs
Labels(app_name, d) ==
    { <<"traefik.enable", "true">>,
      <<"traefik.http.routers." \o app_name \o "-secure.rule", HostRule(app_name, d)>>,
      <<"traefik.http.routers." \o app_name \o "-secure.entrypoints", "websecure">>,
      <<"traefik.http.routers." \o app_name \o "-secure.tls.certresolver", "myresolver">>,
      <<"traefik.http.routers." \o app_name \o "-secure.tls.domains[0].main", "*." \o d>>,
      <<"traefik.http.routers." \o app_name \o ".rule", HostRule(app_name, d)>>,
      <<"traefik.http.routers." \o app_name \o ".entrypoints", "web">>,
      <<"traefik.http.services." \o app_name \o ".loadbalancer.server.port", "5000">> }


(***************************************************************************)
(* Text files (lines 65-66, 80-81, 85-86).                                 *)
(***************************************************************************)
\* os.linesep of the platform the dashboard runs on (APPS_CODE_DIR is a
\* POSIX path)
LINESEP == "\n"

\* what f.write(text) stores in a file opened with open(path, 'w'): text
\* mode with newline=None writes os.linesep for every "\n"
RECURSIVE TextWrite(_)
TextWrite(text) ==
    IF text = "" THEN ""
    ELSE IF Char(text, 1) = "\n" THEN LINESEP \o TextWrite(Tail(text))
    ELSE Char(text, 1) \o TextWrite(Tail(text))

\* what f.read() returns for a file opened with open(path, 'r'): text mode
\* with newline=None (universal newlines) turns "\r\n" and "\r" into "\n"
RECURSIVE TextRead(_)
TextRead(stored) ==
    IF stored = "" THEN ""
    ELSE IF StartsWith(stored, "\r\n") THEN "\n" \o TextRead(SubSeq(stored, 3, Len(stored)))
    ELSE IF Char(stored, 1) = "\r" THEN "\n" \o TextRead(Tail(stored))
    ELSE Char(stored, 1) \o TextRead(Tail(stored))

\* code texts a browser or any HTTP client can post as request.form['code']
CodeSamples ==
    << "print(1)\r\nprint(2)\r",
       "print(1)\n",
       "",
       "\r\n\n",
       "x" >>

SubmittedCodes == {CodeSamples[i] : i \in 1..MaxCodes}

(***************************************************************************)
(* State.                                                                  *)
(***************************************************************************)
VARIABLES
    BASE_DOMAIN,  \* line 14: fixed when the module is loaded
    root,         \* whether APPS_CODE_DIR exists
    dirs,         \* the directories under APPS_CODE_DIR: name -> (file name -> stored text)
    containers,   \* the runtime's containers: records id, name, status, files, labels
    req           \* the requests being served: handler, position, locals, response

vars == <<BASE_DOMAIN, root, dirs, containers, req>>

\* a directory, or a container's /user-app, with no file in it
EmptyDir == <<>>

\* request slots: one when requests run one at a time, two when they overlap
SeqReqs == {1}

ConcReqs == {1, 2}

\* a container that is not one of the apps: the reverse proxy the labels are for
PROXY_NAME == "traefik"

Idle ==
    [op |-> "idle", pc |-> "idle", name |-> "", code |-> "", old |-> {}, cid |-> 0,
     listed |-> {}, status |-> 0, err |-> "", page |-> "", apps |-> {}]

\* ids of containers: the runtime gives a new container an id that no
\* container has and that no request still holds
Ids == 1..(MaxNames + Cardinality(ConcReqs) + 2)

HeldIds == UNION {{c.id : c \in req[r].old} \cup {req[r].cid} : r \in DOMAIN req}

FreshId == CHOOSE i \in Ids : /\ i \notin {c.id : c \in containers} \cup HeldIds
                              /\ \A j \in Ids : j < i => j \in {c.id : c \in containers} \cup HeldIds

(***************************************************************************)
(* The runtime, as docker-py shows it.                                     *)
(***************************************************************************)
\* a lookup that finds no container
ContainersGetNone(cs, name) == {}

\* client.containers.get(name): the containers of that name ({} is NotFound)
ContainersGet(cs, name) == {c \in cs : c.name = name}

\* a remove that leaves the container in place
ContainersRemoveNone(cs, id) == cs

\* container.remove(force=True)
ContainersRemove(cs, id) == {c \in cs : c.id # id}

\* a runtime that lets two containers have one name
NameTakenNever(cs, name) == FALSE

\* client.containers.create(name=...): the runtime refuses a name that a
\* container has (409 Conflict, an APIError that is not NotFound)
NameTaken(cs, name) == ContainersGet(cs, name) # {}

\* a create that also starts the container, as client.containers.run does
NewContainerRunning(id, name, labels) ==
    [id |-> id, name |-> name, status |-> "running", files |-> EmptyDir, labels |-> labels]

\* client.containers.create(name=..., labels=...): status "created", nothing
\* yet in the working directory
NewContainer(id, name, labels) ==
    [id |-> id, name |-> name, status |-> "created", files |-> EmptyDir, labels |-> labels]

\* a put_archive that the runtime answers without unpacking anything
PutArchiveNothing(cs, id, files) == cs

\* container.put_archive('/user-app', make_tarfile(dir)): every file of the
\* directory, byte for byte
PutArchive(cs, id, files) ==
    {IF c.id = id THEN [c EXCEPT !.files = files @@ c.files] ELSE c : c \in cs}

\* a failure path that removes the container it had created
FailureRollsBack(cs, id) == {c \in cs : c.id # id}

\* lines 128-142 have no try/except: when the sync or the start raises, the
\* exception leaves start_app_container and the container it created stays
FailureLeaves(cs, id) == cs

\* container.start()
ContainersStart(cs, id) ==
    {IF c.id = id THEN [c EXCEPT !.status = "running"] ELSE c : c \in cs}

(***************************************************************************)
(* get_apps (lines 34-53) on a container listing and the directories.      *)
(***************************************************************************)
\* a status that only tells whether a container exists
StatusOfExists(listing, app_name) ==
    IF ContainersGet(listing, ContainerName(app_name)) = {} THEN "stopped" ELSE "running"

\* line 46: status = container.status if container else "stopped"
StatusOf(listing, app_name) ==
    LET found == ContainersGet(listing, ContainerName(app_name))
    IN  IF found = {} THEN "stopped" ELSE (CHOOSE c \in found : TRUE).status

AppEntry(listing, app_name, d) ==
    [name |-> app_name,
     status |-> StatusOf(listing, app_name),
     url |-> Url(app_name, d),
     https_url |-> HttpsUrl(app_name, d)]

\* a get_apps that lists only the directories that have a container
AppsOfContainers(listing, ds, d) ==
    {AppEntry(listing, n, d) : n \in {m \in DOMAIN ds : ContainersGet(listing, ContainerName(m)) # {}}}

\* lines 41-52: one entry per directory of APPS_CODE_DIR
AppsOf(listing, ds, d) == {AppEntry(listing, n, d) : n \in DOMAIN ds}

\* get_apps() run on the present state
GetApps == AppsOf(containers, dirs, BASE_DOMAIN)

(***************************************************************************)
(* Initial state: the module is loaded, no app exists, the proxy runs.     *)
(***************************************************************************)
Init ==
    /\ BASE_DOMAIN \in Domains
    /\ root \in BOOLEAN
    /\ dirs = <<>>
    /\ containers = {[id |-> 1, name |-> PROXY_NAME, status |-> "running",
                      files |-> EmptyDir, labels |-> {}]}
    /\ req = [r \in ConcReqs |-> Idle]


(***************************************************************************)
(* Requests.  A handler starts in an idle slot with its first call; pc     *)
(* names the call it makes next; "done" holds the response until it is     *)
(* sent.  status is the HTTP status: 200 a page, 302 the redirect to the   *)
(* index, 404 the handler's own "not found", 500 an exception that no      *)
(* handler catches (err names it).                                         *)
(***************************************************************************)
Goto(r, label) == req' = [req EXCEPT ![r].pc = label]

Return(r, code) == req' = [req EXCEPT ![r].pc = "done", ![r].status = code]

Raise(r, exc) == req' = [req EXCEPT ![r].pc = "done", ![r].status = 500, ![r].err = exc]

\* the locals of a handler entered for app_name
Locals(handler, app_name) == [Idle EXCEPT !.op = handler, !.name = app_name]

\* an rmtree that empties the directory and leaves it
RmtreeContents(ds, app_name) == [n \in DOMAIN ds |-> IF n = app_name THEN EmptyDir ELSE ds[n]]

\* shutil.rmtree(app_path) done (line 158)
Rmtree(ds, app_name) == [n \in DOMAIN ds \ {app_name} |-> ds[n]]

\* an rmtree without the os.path.exists guard of line 157: it raises on a
\* path that is absent
RmtreeOutcomesUnguarded(ds, app_name) ==
    IF app_name \notin DOMAIN ds THEN {"failed"} ELSE {"removed", "failed", "failed_half"}

\* lines 157-158: what the guarded rmtree can do: nothing when the path is
\* absent; else remove the tree, or fail (OSError) with nothing or only the
\* file removed
RmtreeOutcomes(ds, app_name) ==
    IF app_name \notin DOMAIN ds THEN {"absent"} ELSE {"removed", "failed", "failed_half"}

\* a makedirs called with exist_ok=True
MakedirsExistOk(ds, app_name) == FALSE

\* line 64: os.makedirs(app_path) raises FileExistsError when the path exists
MakedirsRaises(ds, app_name) == app_name \in DOMAIN ds

\* lines 85-86: the text f.read() gives for the app's app.py
ReadCode(ds, app_name) == TextRead(ds[app_name][APP_PY])

\* an existence test of the directory instead of the file
HasAppPyDirOnly(ds, app_name) == app_name \in DOMAIN ds

\* line 75: os.path.exists(app_py_path)
HasAppPy(ds, app_name) == app_name \in DOMAIN ds /\ APP_PY \in DOMAIN ds[app_name]

(***************************************************************************)
(* start_app_container (lines 90-142), entered from new_app (line 68) and, *)
(* through restart_app_container (lines 144-145), from edit_app (line 82). *)
(***************************************************************************)
\* line 95: client.containers.get(container_name)
ScGet(r) ==
    /\ req[r].pc = "sc_get"
    /\ UNCHANGED <<BASE_DOMAIN, root, dirs, containers>>
    /\ \E down \in BOOLEAN :
        LET found == ContainersGet(containers, ContainerName(req[r].name))
        IN  IF down THEN Raise(r, "APIError")
            ELSE IF found = {} THEN Goto(r, "sc_create")
            ELSE req' = [req EXCEPT ![r].pc = "sc_remove",
                                    ![r].old = {CHOOSE c \in found : TRUE}]

\* line 96: old_container.remove(force=True); NotFound is passed over (line 97)
ScRemove(r) ==
    /\ req[r].pc = "sc_remove"
    /\ UNCHANGED <<BASE_DOMAIN, root, dirs>>
    /\ \E down \in BOOLEAN :
        IF down THEN Raise(r, "APIError") /\ UNCHANGED containers
        ELSE /\ containers' = ContainersRemove(containers, (CHOOSE c \in req[r].old : TRUE).id)
             /\ Goto(r, "sc_create")

\* lines 100-126: the labels and client.containers.create; the runtime
\* refuses a name that a container already has (409 Conflict)
ScCreate(r) ==
    /\ req[r].pc = "sc_create"
    /\ UNCHANGED <<BASE_DOMAIN, root, dirs>>
    /\ \E down \in BOOLEAN :
        IF down THEN Raise(r, "APIError") /\ UNCHANGED containers
        ELSE IF NameTaken(containers, ContainerName(req[r].name))
        THEN Raise(r, "Conflict") /\ UNCHANGED containers
        ELSE /\ containers' = containers \cup
                    {NewContainer(FreshId, ContainerName(req[r].name),
                                  Labels(req[r].name, BASE_DOMAIN))}
             /\ req' = [req EXCEPT ![r].pc = "sc_put", ![r].cid = FreshId]

\* lines 128-140: network.connect(container), then make_tarfile of the app's
\* directory and container.put_archive
ScPut(r) ==
    /\ req[r].pc = "sc_put"
    /\ UNCHANGED <<BASE_DOMAIN, root, dirs>>
    /\ \E down \in BOOLEAN :
        IF down
        THEN Raise(r, "APIError") /\ containers' = FailureLeaves(containers, req[r].cid)
        ELSE IF req[r].cid \notin {c.id : c \in containers}
        THEN Raise(r, "NotFound") /\ containers' = FailureLeaves(containers, req[r].cid)
        ELSE IF req[r].name \notin DOMAIN dirs
        THEN Raise(r, "FileNotFoundError") /\ containers' = FailureLeaves(containers, req[r].cid)
        ELSE /\ containers' = PutArchive(containers, req[r].cid, dirs[req[r].name])
             /\ Goto(r, "sc_start")

\* line 142: container.start(); then the caller's redirect (lines 70, 83)
ScStart(r) ==
    /\ req[r].pc = "sc_start"
    /\ UNCHANGED <<BASE_DOMAIN, root, dirs>>
    /\ \E down \in BOOLEAN :
        IF down
        THEN Raise(r, "APIError") /\ containers' = FailureLeaves(containers, req[r].cid)
        ELSE IF req[r].cid \notin {c.id : c \in containers}
        THEN Raise(r, "NotFound") /\ containers' = FailureLeaves(containers, req[r].cid)
        ELSE /\ containers' = ContainersStart(containers, req[r].cid)
             /\ Return(r, 302)

(***************************************************************************)
(* new_app (lines 60-70).                                                  *)
(***************************************************************************)
\* lines 62-64: get_random_name and os.makedirs(app_path), which makes
\* APPS_CODE_DIR too and raises FileExistsError when the directory exists
NewMakedirs(r) ==
    /\ req[r].pc = "idle"
    /\ UNCHANGED <<BASE_DOMAIN, containers>>
    /\ \E d \in Draws :
        LET app_name == get_random_name(d[1], d[2], d[3])
            me == Locals("new_app", app_name)
        IN  IF MakedirsRaises(dirs, app_name)
            THEN /\ req' = [req EXCEPT ![r] = [me EXCEPT !.pc = "done", !.status = 500,
                                                          !.err = "FileExistsError"]]
                 /\ UNCHANGED <<root, dirs>>
            ELSE /\ req' = [req EXCEPT ![r] = [me EXCEPT !.pc = "new_write"]]
                 /\ root' = TRUE
                 /\ dirs' = (app_name :> EmptyDir) @@ dirs

\* lines 65-66: open(app.py, 'w') and f.write(DEFAULT_APP_CODE); open can
\* fail (OSError), and fails when the directory is gone
NewWrite(r) ==
    /\ req[r].pc = "new_write"
    /\ UNCHANGED <<BASE_DOMAIN, root, containers>>
    /\ \E ioerr \in BOOLEAN :
        IF ioerr THEN Raise(r, "OSError") /\ UNCHANGED dirs
        ELSE IF req[r].name \notin DOMAIN dirs
        THEN Raise(r, "FileNotFoundError") /\ UNCHANGED dirs
        ELSE /\ dirs' = [dirs EXCEPT ![req[r].name] = (APP_PY :> TextWrite(DEFAULT_APP_CODE)) @@ @]
             /\ Goto(r, "sc_get")

(***************************************************************************)
(* edit_app (lines 72-87).                                                 *)
(***************************************************************************)
\* lines 74-78: os.path.exists(app_py_path), 404 when it does not; then the
\* branch on request.method
EditExists(r) ==
    /\ req[r].pc = "idle"
    /\ UNCHANGED <<BASE_DOMAIN, root, dirs, containers>>
    /\ \E app_name \in Targets, method \in {"GET", "POST"}, code \in SubmittedCodes :
        LET me == Locals(IF method = "POST" THEN "edit_post" ELSE "edit_get", app_name)
        IN  /\ method = "GET" => code = CodeSamples[1]
            /\ IF ~HasAppPy(dirs, app_name)
               THEN req' = [req EXCEPT ![r] = [me EXCEPT !.pc = "done", !.status = 404]]
               ELSE IF method = "POST"
               THEN req' = [req EXCEPT ![r] = [me EXCEPT !.pc = "edit_write", !.code = code]]
               ELSE req' = [req EXCEPT ![r] = [me EXCEPT !.pc = "edit_read"]]

\* lines 79-81: open(app.py, 'w') and f.write(code); then line 82
EditWrite(r) ==
    /\ req[r].pc = "edit_write"
    /\ UNCHANGED <<BASE_DOMAIN, root, containers>>
    /\ \E ioerr \in BOOLEAN :
        IF ioerr THEN Raise(r, "OSError") /\ UNCHANGED dirs
        ELSE IF req[r].name \notin DOMAIN dirs
        THEN Raise(r, "FileNotFoundError") /\ UNCHANGED dirs
        ELSE /\ dirs' = [dirs EXCEPT ![req[r].name] = (APP_PY :> TextWrite(req[r].code)) @@ @]
             /\ Goto(r, "sc_get")

\* lines 85-87: open(app.py, 'r'), f.read() and the edit page with the code
EditRead(r) ==
    /\ req[r].pc = "edit_read"
    /\ UNCHANGED <<BASE_DOMAIN, root, dirs, containers>>
    /\ IF ~HasAppPy(dirs, req[r].name)
       THEN Raise(r, "FileNotFoundError")
       ELSE req' = [req EXCEPT ![r].pc = "done", ![r].status = 200,
                               ![r].page = ReadCode(dirs, req[r].name)]

(***************************************************************************)
(* delete_app (lines 147-160).                                             *)
(***************************************************************************)
\* an except clause that passes over every exception
DeleteCatchesAll(exc) == TRUE

\* line 153: except docker.errors.NotFound: pass
DeleteCatches(exc) == exc = "NotFound"

\* a delete_app that goes on to the directory without removing the container
AfterLookupSkipsRemove(found) == "del_rmtree"

\* lines 150-156: the container that was found is removed before the
\* directory is looked at; NotFound goes straight on to the directory
AfterLookup(found) == IF found = {} THEN "del_rmtree" ELSE "del_remove"

\* line 151: client.containers.get(container_name)
DelGet(r) ==
    /\ req[r].pc = "idle"
    /\ UNCHANGED <<BASE_DOMAIN, root, dirs, containers>>
    /\ \E app_name \in Targets, down \in BOOLEAN :
        LET me == Locals("delete_app", app_name)
            found == ContainersGet(containers, ContainerName(app_name))
        IN  IF down
            THEN IF DeleteCatches("APIError")
                 THEN req' = [req EXCEPT ![r] = [me EXCEPT !.pc = "del_rmtree"]]
                 ELSE req' = [req EXCEPT ![r] = [me EXCEPT !.pc = "done", !.status = 500,
                                                            !.err = "APIError"]]
            ELSE IF found = {}
            THEN req' = [req EXCEPT ![r] = [me EXCEPT !.pc = AfterLookup(found)]]
            ELSE req' = [req EXCEPT ![r] = [me EXCEPT !.pc = AfterLookup(found),
                                                       !.old = {CHOOSE c \in found : TRUE}]]

\* line 152: container.remove(force=True); NotFound is passed over (line 153)
DelRemove(r) ==
    /\ req[r].pc = "del_remove"
    /\ UNCHANGED <<BASE_DOMAIN, root, dirs>>
    /\ \E down \in BOOLEAN :
        IF down
        THEN /\ IF DeleteCatches("APIError") THEN Goto(r, "del_rmtree") ELSE Raise(r, "APIError")
             /\ UNCHANGED containers
        ELSE /\ containers' = ContainersRemove(containers, (CHOOSE c \in req[r].old : TRUE).id)
             /\ Goto(r, "del_rmtree")

\* lines 156-160: shutil.rmtree(app_path) when the path exists, then the
\* redirect; rmtree can fail (OSError) having removed nothing or the file
DelRmtree(r) ==
    /\ req[r].pc = "del_rmtree"
    /\ UNCHANGED <<BASE_DOMAIN, root, containers>>
    /\ \E outcome \in RmtreeOutcomes(dirs, req[r].name) :
        CASE outcome = "absent" -> Return(r, 302) /\ UNCHANGED dirs
          [] outcome = "removed" ->
               /\ dirs' = Rmtree(dirs, req[r].name)
               /\ Return(r, 302)
          [] outcome = "failed" -> Raise(r, "OSError") /\ UNCHANGED dirs
          [] outcome = "failed_half" ->
               /\ dirs' = IF req[r].name \in DOMAIN dirs
                          THEN [dirs EXCEPT ![req[r].name] = EmptyDir] ELSE dirs
               /\ Raise(r, "OSError")

(***************************************************************************)
(* get_logs (lines 162-170).                                               *)
(***************************************************************************)
\* line 166: client.containers.get(container_name); NotFound is the 404 of
\* line 170
LogsGet(r) ==
    /\ req[r].pc = "idle"
    /\ UNCHANGED <<BASE_DOMAIN, root, dirs, containers>>
    /\ \E app_name \in Targets, down \in BOOLEAN :
        LET me == Locals("get_logs", app_name)
            found == ContainersGet(containers, ContainerName(app_name))
        IN  IF down
            THEN req' = [req EXCEPT ![r] = [me EXCEPT !.pc = "done", !.status = 500,
                                                       !.err = "APIError"]]
            ELSE IF found = {}
            THEN req' = [req EXCEPT ![r] = [me EXCEPT !.pc = "done", !.status = 404]]
            ELSE req' = [req EXCEPT ![r] = [me EXCEPT !.pc = "logs_read",
                                                       !.old = {CHOOSE c \in found : TRUE}]]

\* lines 167-168: container.logs(tail=100) and the logs page; NotFound (the
\* container was removed meanwhile) is the 404 of line 170
LogsRead(r) ==
    /\ req[r].pc = "logs_read"
    /\ UNCHANGED <<BASE_DOMAIN, root, dirs, containers>>
    /\ \E down \in BOOLEAN :
        IF down THEN Raise(r, "APIError")
        ELSE IF req[r].old \cap containers = {}
                /\ (CHOOSE c \in req[r].old : TRUE).id \notin {c.id : c \in containers}
        THEN Return(r, 404)
        ELSE Return(r, 200)

(***************************************************************************)
(* index (lines 55-58) with get_apps (lines 34-53).                        *)
(***************************************************************************)
\* line 36: client.containers.list(all=True)
IndexList(r) ==
    /\ req[r].pc = "idle"
    /\ UNCHANGED <<BASE_DOMAIN, root, dirs, containers>>
    /\ \E down \in BOOLEAN :
        IF down
        THEN req' = [req EXCEPT ![r] = [Locals("index", "") EXCEPT !.pc = "done", !.status = 500,
                                                                   !.err = "APIError"]]
        ELSE req' = [req EXCEPT ![r] = [Locals("index", "") EXCEPT !.pc = "index_dirs",
                                                                   !.listed = containers]]

\* lines 38-53, 58: os.makedirs(APPS_CODE_DIR) when it is absent, the loop
\* over os.listdir, and the index page
IndexDirs(r) ==
    /\ req[r].pc = "index_dirs"
    /\ UNCHANGED <<BASE_DOMAIN, dirs, containers>>
    /\ root' = TRUE
    /\ req' = [req EXCEPT ![r].pc = "done", ![r].status = 200,
                          ![r].apps = AppsOf(req[r].listed, dirs, BASE_DOMAIN)]

\* the response is sent; the slot is free for the next request
Respond(r) ==
    /\ req[r].pc = "done"
    /\ req' = [req EXCEPT ![r] = Idle]
    /\ UNCHANGED <<BASE_DOMAIN, root, dirs, containers>>

(***************************************************************************)
(* The runtime on its own: restart_policy "always" (line 125).  The        *)
(* process of a started app container may exit, which the runtime reports  *)
(* as "restarting", and the runtime starts it again.                       *)
(***************************************************************************)
ProcessExits ==
    /\ \E c \in containers :
        /\ c.status = "running"
        /\ c.name # PROXY_NAME
        /\ containers' = (containers \ {c}) \cup {[c EXCEPT !.status = "restarting"]}
    /\ UNCHANGED <<BASE_DOMAIN, root, dirs, req>>

ProcessRestarts ==
    /\ \E c \in containers :
        /\ c.status = "restarting"
        /\ containers' = (containers \ {c}) \cup {[c EXCEPT !.status = "running"]}
    /\ UNCHANGED <<BASE_DOMAIN, root, dirs, req>>

(***************************************************************************)
(* Specifications.                                                         *)
(***************************************************************************)
Step(r) ==
    \/ NewMakedirs(r) \/ NewWrite(r)
    \/ EditExists(r) \/ EditWrite(r) \/ EditRead(r)
    \/ ScGet(r) \/ ScRemove(r) \/ ScCreate(r) \/ ScPut(r) \/ ScStart(r)
    \/ DelGet(r) \/ DelRemove(r) \/ DelRmtree(r)
    \/ LogsGet(r) \/ LogsRead(r)
    \/ IndexList(r) \/ IndexDirs(r)
    \/ Respond(r)

\* requests run one at a time
Next == (\E r \in SeqReqs : Step(r)) \/ ProcessExits \/ ProcessRestarts

Spec == Init /\ [][Next]_vars

(***************************************************************************)
(* Requests that overlap.  Flask serves requests in threads (app.run,      *)
(* line 173, and any WSGI server with more than one worker), and no        *)
(* handler takes a lock: between two calls of one handler the calls of     *)
(* another may run.  Two slots serve new_app, edit_app and delete_app, all  *)
(* for one app name and posting one code text, from a fresh installation   *)
(* with the default domain; the processes of the containers do not exit.   *)
(***************************************************************************)
\* the app name the overlapping requests are about
SameName == get_random_name(Draw(1)[1], Draw(1)[2], Draw(1)[3])

\* every request in flight is for SameName
SameApp == \A r \in DOMAIN req : req[r].name \in {"", SameName}

\* every POST in flight submits the same code text
SameCode == \A r \in DOMAIN req : req[r].code \in {"", CodeSamples[1]}

InitConc == Init /\ BASE_DOMAIN = "localhost" /\ root = FALSE

ConcStep(r) ==
    \/ NewMakedirs(r) /\ SameApp'
    \/ NewWrite(r)
    \/ EditExists(r) /\ SameApp' /\ SameCode'
    \/ EditWrite(r) \/ EditRead(r)
    \/ ScGet(r) \/ ScRemove(r) \/ ScCreate(r) \/ ScPut(r) \/ ScStart(r)
    \/ DelGet(r) /\ SameApp'
    \/ DelRemove(r) \/ DelRmtree(r)
    \/ Respond(r)

NextConc == \E r \in ConcReqs : ConcStep(r)

SpecConc == InitConc /\ [][NextConc]_vars

\* the runtime has answered the call of request r (no APIError)
RuntimeAnswers(r) == req[r].err # "APIError"

\* overlapping new_app and edit_app POST requests for one app, with any of
\* the code texts, while the runtime is reachable: file errors, NotFound and
\* name conflicts can still end a request
EditsStep(r) ==
    \/ NewMakedirs(r) /\ SameApp'
    \/ NewWrite(r)
    \/ EditExists(r) /\ SameApp' /\ req'[r].op = "edit_post"
    \/ EditWrite(r)
    \/ ScGet(r) /\ RuntimeAnswers(r)'
    \/ ScRemove(r) /\ RuntimeAnswers(r)'
    \/ ScCreate(r) /\ RuntimeAnswers(r)'
    \/ ScPut(r) /\ RuntimeAnswers(r)'
    \/ ScStart(r) /\ RuntimeAnswers(r)'
    \/ Respond(r)

NextEdits == \E r \in ConcReqs : EditsStep(r)

SpecEdits == InitConc /\ [][NextEdits]_vars


(***************************************************************************)
(* Properties.                                                             *)
(***************************************************************************)
Slots == DOMAIN req

\* request r holds the response of handler h with HTTP status code
Responded(r, h, code) == req[r].op = h /\ req[r].pc = "done" /\ req[r].status = code

\* the container name user-app-<n> of every name a request can carry
UserApp == [n \in Targets \cup {""} |-> "user-app-" \o n]

\* the containers the runtime holds under the name user-app-<n>
AppContainers(n) == {c \in containers : c.name = UserApp[n]}

\* the names list_apps() reports for containers cs, directories ds, domain d
ListedIn(cs, ds, d) == {e.name : e \in AppsOf(cs, ds, d)}

\* the names list_apps() reports in the present state
ListedNames == ListedIn(containers, dirs, BASE_DOMAIN)

\* the status a runtime holding cs reports for the container of n, "stopped"
\* if it holds none
LiveStatus(cs, n) ==
    LET held == {c \in cs : c.name = UserApp[n]}
    IN  IF held = {} THEN "stopped" ELSE (CHOOSE c \in held : TRUE).status

\* this step is one of a delete_app request for n
DeleteRuns(n) ==
    \E r \in Slots : req'[r].op = "delete_app" /\ req'[r].name = n /\ req'[r] # req[r]

\* this step is the one in which new_app returns its redirect
CreateReturns(r) == req[r].op = "new_app" /\ req[r].pc = "sc_start" /\ req'[r].status = 302

\* C1, as stated: once new_app has returned its redirect for n (and no delete
\* of n has run), list_apps() has an entry named n whose status is 'running'
\* or 'stopped'.
C1_RunningOrStopped ==
    \A r \in Slots :
        Responded(r, "new_app", 302) =>
            \E e \in GetApps : e.name = req[r].name /\ e.status \in {"running", "stopped"}

\* list_apps() has one entry for a name, with the status the runtime reports
EntriesShowLiveStatus(cs, ds, d) ==
    LET apps == AppsOf(cs, ds, d)
    IN  \A e \in apps :
            /\ e.status = LiveStatus(cs, e.name)
            /\ \A f \in apps : f.name = e.name => f = e

\* C1, amended: once new_app has returned its redirect for n, and as long as
\* no delete of n runs, every list_apps() has exactly one entry named n.  Its
\* status is the live status the runtime reports for the container
\* user-app-n: 'running' in the state new_app returns in, later whatever the
\* runtime reports ('restarting' once the process has exited, 'created' after
\* a replace that failed before the start), and 'stopped' only when no
\* container of that name exists.  (The first conjunct is the initial state,
\* the second every step: together, every reachable state.)
C1_ListedWithLiveStatus ==
    /\ EntriesShowLiveStatus(containers, dirs, BASE_DOMAIN)
    /\ [][ /\ EntriesShowLiveStatus(containers', dirs', BASE_DOMAIN')
           /\ \A r \in Slots : CreateReturns(r) =>
                 /\ req[r].name \in ListedIn(containers', dirs', BASE_DOMAIN')
                 /\ LiveStatus(containers', req[r].name) = "running"
           /\ {n \in ListedIn(containers, dirs, BASE_DOMAIN) : ~DeleteRuns(n)}
                 \subseteq ListedIn(containers', dirs', BASE_DOMAIN')
         ]_vars

\* C1 reached: the index page lists an app that new_app created and whose
\* process has exited since: its status is neither 'running' nor 'stopped'
C1_Witness ==
    \E r \in Slots :
        /\ Responded(r, "index", 200)
        /\ \E e \in req[r].apps : e.name \in NamePool /\ e.status = "restarting"

\* C2: when delete_app(n) has returned its redirect, the directory n is gone,
\* no container is named user-app-n, and list_apps() has no entry named n.
C2_DeleteRemovesAll ==
    \A r \in Slots :
        Responded(r, "delete_app", 302) =>
            /\ req[r].name \notin DOMAIN dirs
            /\ AppContainers(req[r].name) = {}
            /\ req[r].name \notin ListedNames

\* C2 reached: delete_app returned for an app whose container it removed
C2_Witness ==
    \E r \in Slots :
        /\ Responded(r, "delete_app", 302)
        /\ req[r].name \in NamePool
        /\ req[r].old # {}

\* a container counts as started from container.start() on, whether its
\* process runs or the runtime is restarting it
Started(c) == c.status \in {"running", "restarting"}

\* what can be observed of a container apart from its id
Observable(c) == [name |-> c.name, files |-> c.files, labels |-> c.labels, started |-> Started(c)]

\* request r holds the redirect of a handler that ran start_app_container
StartReturned(r) == Responded(r, "new_app", 302) \/ Responded(r, "edit_post", 302)

\* C3: when start_app_container(n) has returned, exactly one container is
\* named user-app-n, it is the one this call created, it is started and holds
\* the files of directory n, and the container the call found is gone.  When
\* the call found a started container that held the same files (a second call
\* with unchanged code), what can be observed is what the first call left.
C3_StartIdempotent ==
    \A r \in Slots :
        StartReturned(r) =>
            /\ Cardinality(AppContainers(req[r].name)) = 1
            /\ \A c \in AppContainers(req[r].name) :
                /\ c.id = req[r].cid
                /\ Started(c)
                /\ c.files = dirs[req[r].name]
                /\ \A o \in req[r].old :
                    /\ o.id \notin {x.id : x \in containers}
                    /\ (Started(o) /\ o.files = dirs[req[r].name]) => Observable(c) = Observable(o)

\* C3 reached: a second start_app_container for unchanged code has returned
C3_Witness ==
    \E r \in Slots :
        /\ Responded(r, "edit_post", 302)
        /\ \E o \in req[r].old : o.status = "running" /\ o.files = dirs[req[r].name]

\* the handler of request r has written the submitted code (lines 80-81)
WroteCode(r) ==
    /\ req[r].op = "edit_post"
    /\ \/ req[r].pc \in {"sc_get", "sc_remove", "sc_create", "sc_put", "sc_start"}
       \/ req[r].pc = "done" /\ (req[r].status = 302 \/ req[r].err \in {"APIError", "Conflict", "NotFound"})

\* C4, as stated: after the POST branch of edit_app has written X for n, with
\* no other write since, the GET branch reads exactly X, also when the
\* container replace after the write failed.
C4_RoundTrip ==
    \A r \in Slots :
        (WroteCode(r) /\ HasAppPy(dirs, req[r].name)) =>
            ReadCode(dirs, req[r].name) = req[r].code

\* the values a label map gives a key
LabelValues(labels, key) == {p[2] : p \in {q \in labels : q[1] = key}}

\* the host inside Host(`...`) and the host of http://...
RuleHost(rule) == SubSeq(rule, Len("Host(") + 2, Len(rule) - 2)

UrlHost(url) == SubSeq(url, Len("http://") + 1, Len(url))

\* what the claim expects of app n under base domain d: the rule, the url
\* and the label keys of the two routers
Routing ==
    [n \in NamePool, d \in Domains |->
        [rule |-> "Host(" \o BACKTICK \o n \o "." \o d \o BACKTICK \o ")",
         url |-> "http://" \o n \o "." \o d,
         web_rule |-> "traefik.http.routers." \o n \o ".rule",
         web_entrypoints |-> "traefik.http.routers." \o n \o ".entrypoints",
         secure_rule |-> "traefik.http.routers." \o n \o "-secure.rule",
         secure_entrypoints |-> "traefik.http.routers." \o n \o "-secure.entrypoints",
         secure_certresolver |-> "traefik.http.routers." \o n \o "-secure.tls.certresolver"]]

\* the host of the expected rule is the host of the expected url
RuleHostIsUrlHost ==
    \A n \in NamePool, d \in Domains :
        /\ RuleHost(Routing[n, d].rule) = UrlHost(Routing[n, d].url)
        /\ RuleHost(Routing[n, d].rule) = n \o "." \o d

\* C5: the labels of every container that start_app_container made for n
\* carry the rule Host(`n.BASE_DOMAIN`) on the router n with entrypoint web
\* and on the router n-secure with entrypoint websecure, the latter with a
\* certificate resolver; the host of both rules is the host of the url that
\* list_apps() reports for n.
C5_RoutingLabels ==
    /\ RuleHostIsUrlHost
    /\ \A n \in NamePool : \A c \in AppContainers(n) :
        LET want == Routing[n, BASE_DOMAIN]
        IN  /\ LabelValues(c.labels, want.web_rule) = {want.rule}
            /\ LabelValues(c.labels, want.web_entrypoints) = {"web"}
            /\ LabelValues(c.labels, want.secure_rule) = {want.rule}
            /\ LabelValues(c.labels, want.secure_entrypoints) = {"websecure"}
            /\ \E v \in LabelValues(c.labels, want.secure_certresolver) : v # ""
            /\ n \in DOMAIN dirs =>
                 \A e \in GetApps : e.name = n => e.url = want.url

\* C5 reached: a listed app has a container
C5_Witness == \E n \in NamePool : AppContainers(n) # {} /\ n \in ListedNames

\* n has neither a directory nor a container
Absent(n) == n \notin DOMAIN dirs /\ AppContainers(n) = {}

\* this step is one of the delete_app request in slot r
DeleteStep(r) == req'[r].op = "delete_app" /\ req'[r] # req[r]

\* C6: no step of a delete_app for a name that has neither directory nor
\* container changes the code store or any container, and the request ends
\* with its redirect.  The one other end is the runtime not answering the
\* lookup of line 151 (an APIError, which is not the not-found case).
C6_DeleteAbsentIsNoOp ==
    [][ \A r \in Slots :
          (DeleteStep(r) /\ Absent(req'[r].name)) =>
              /\ dirs' = dirs /\ containers' = containers /\ root' = root
              /\ req'[r].pc \in {"del_rmtree", "done"}
              /\ req'[r].pc = "done" =>
                   \/ req'[r].status = 302
                   \/ req[r].pc = "idle" /\ req'[r].status = 500 /\ req'[r].err = "APIError"
      ]_vars

\* C6 reached: delete_app returned its redirect for a name that never
\* existed while another app has its directory and its container
C6_Witness ==
    \E r \in Slots :
        /\ Responded(r, "delete_app", 302)
        /\ req[r].name = FOREIGN
        /\ \E n \in DOMAIN dirs : AppContainers(n) # {}

\* C7: list_apps() has exactly one entry per directory and no other; the
\* status of an entry is the runtime's status of the container named
\* user-app-<directory> when there is one and 'stopped' when there is none.
\* The same holds of the list an index request returns, for the container
\* listing it took.
C7_OneEntryPerDirectory ==
    /\ LET apps == GetApps
       IN  /\ {e.name : e \in apps} = DOMAIN dirs
           /\ Cardinality(apps) = Cardinality(DOMAIN dirs)
           /\ \A e \in apps :
                IF AppContainers(e.name) = {} THEN e.status = "stopped"
                ELSE \E c \in AppContainers(e.name) : e.status = c.status
    /\ \A r \in Slots :
         Responded(r, "index", 200) =>
            /\ {e.name : e \in req[r].apps} = DOMAIN dirs
            /\ Cardinality(req[r].apps) = Cardinality(DOMAIN dirs)
            /\ \A e \in req[r].apps :
                 LET seen == {c \in req[r].listed : c.name = UserApp[e.name]}
                 IN  IF seen = {} THEN e.status = "stopped"
                     ELSE \E c \in seen : e.status = c.status

\* C7 reached: the index lists a directory without container as 'stopped',
\* and a container that matches no directory is in the listing it took
C7_Witness ==
    \E r \in Slots :
        /\ Responded(r, "index", 200)
        /\ \E e \in req[r].apps : e.status = "stopped"
        /\ \E c \in req[r].listed : \A n \in DOMAIN dirs : c.name # UserApp[n]

\* this step is one of the get_logs request in slot r
LogsStep(r) == req'[r].op = "get_logs" /\ req'[r] # req[r]

\* the answer a get_logs request holds fits the containers of the runtime
LogsAnswerFitsRuntime ==
    \A r \in Slots :
        (req[r].op = "get_logs" /\ req[r].pc = "done") =>
            \/ req[r].status = 200 /\ AppContainers(req[r].name) # {}
            \/ req[r].status = 404 /\ AppContainers(req[r].name) = {}
            \/ req[r].status = 500 /\ req[r].err = "APIError"

\* C8: get_logs(n) ends with its 404 only when no container is named
\* user-app-n and with the logs page only when one is, whatever its status
\* and whether or not directory n exists; no step of it changes the code
\* store or a container.  The one other end is the runtime not answering
\* (an APIError).  (The first conjunct is the initial state, the second
\* every step: together, every reachable state.)
C8_LogsNotFoundIffNoContainer ==
    /\ LogsAnswerFitsRuntime
    /\ [][ /\ LogsAnswerFitsRuntime'
           /\ \A r \in Slots :
                LogsStep(r) => (dirs' = dirs /\ containers' = containers /\ root' = root) ]_vars

\* C8 reached: get_logs answered 404 for an app whose directory exists
C8_Witness ==
    \E r \in Slots : Responded(r, "get_logs", 404) /\ req[r].name \in DOMAIN dirs

\* every name get_random_name can return
AllNames == {get_random_name(d[1], d[2], d[3]) : d \in AllDraws}

Range(f) == {f[i] : i \in DOMAIN f}

LowerLetters ==
    {"a","b","c","d","e","f","g","h","i","j","k","l","m",
     "n","o","p","q","r","s","t","u","v","w","x","y","z"}

IsLowerWord(s) == Len(s) >= 1 /\ \A i \in 1..Len(s) : Char(s, i) \in LowerLetters

IsDigits(s) == \A i \in 1..Len(s) : Char(s, i) \in Range(DigitChars)

DigitValue(ch) == CHOOSE v \in 0..9 : DigitChars[v + 1] = ch

\* the number a string of decimal digits writes
RECURSIVE ParseInt(_)
ParseInt(s) ==
    IF s = "" THEN 0
    ELSE 10 * ParseInt(SubSeq(s, 1, Len(s) - 1)) + DigitValue(Char(s, Len(s)))

\* s matches ^[a-z]+-[a-z]+-\d{3}$
MatchesNamePattern(s) ==
    LET hyphens == {i \in 1..Len(s) : Char(s, i) = "-"}
    IN  \E i, j \in hyphens :
            /\ i < j
            /\ IsLowerWord(SubSeq(s, 1, i - 1))
            /\ IsLowerWord(SubSeq(s, i + 1, j - 1))
            /\ Len(s) - j = 3
            /\ IsDigits(SubSeq(s, j + 1, Len(s)))

\* s is <adjective>-<noun>-<number>: a word of each list and 100..999
HasNameForm(s) ==
    LET hyphens == {i \in 1..Len(s) : Char(s, i) = "-"}
    IN  \E i, j \in hyphens :
            /\ i < j
            /\ SubSeq(s, 1, i - 1) \in Range(adjectives)
            /\ SubSeq(s, i + 1, j - 1) \in Range(nouns)
            /\ Len(s) - j = 3
            /\ IsDigits(SubSeq(s, j + 1, Len(s)))
            /\ ParseInt(SubSeq(s, j + 1, Len(s))) \in 100..999

\* every possible name has the form and matches the pattern, and the names
\* are 90,000
AllNamesWellFormed ==
    /\ Len(adjectives) = 10 /\ Len(nouns) = 10
    /\ \A s \in AllNames : HasNameForm(s) /\ MatchesNamePattern(s)
    /\ Cardinality(AllNames) = 90000

\* C9: every name get_random_name can return is <adjective>-<noun>-<number>
\* with the words of the two lists of ten and a number in 100..999, so it
\* matches ^[a-z]+-[a-z]+-\d{3}$, and there are 90,000 names; when new_app
\* has returned, its name is one of them and list_apps() shows it with the
\* url http://<name>.<BASE_DOMAIN>.
C9_GeneratedNames ==
    /\ AllNamesWellFormed
    /\ \A r \in Slots :
         req[r].op = "new_app" =>
            /\ req[r].name \in AllNames
            /\ Responded(r, "new_app", 302) =>
                 \E e \in GetApps :
                    /\ e.name = req[r].name
                    /\ e.url = "http://" \o req[r].name \o "." \o BASE_DOMAIN

\* C9 reached: new_app has returned its redirect
C9_Witness ==
    \E r \in Slots : Responded(r, "new_app", 302) /\ req[r].name \in ListedNames

\* C10: with requests one at a time, no container is named user-app-n when
\* start_app_container(n) issues its create, so no create ends in a name
\* conflict; no two containers share a name; and the container the call goes
\* on with is a new one: not the container it found, created with an empty
\* working directory and not yet started.
C10_CreateFindsNoContainer ==
    /\ \A r \in Slots :
         /\ req[r].pc = "sc_create" => AppContainers(req[r].name) = {}
         /\ req[r].err # "Conflict"
         /\ req[r].pc \in {"sc_put", "sc_start"} =>
              /\ \A o \in req[r].old : o.id # req[r].cid
              /\ \E c \in AppContainers(req[r].name) : c.id = req[r].cid /\ c.status = "created"
         /\ req[r].pc = "sc_put" =>
              \A c \in AppContainers(req[r].name) : c.files = EmptyDir
    /\ \A c1, c2 \in containers : c1.name = c2.name => c1 = c2

\* C10 reached: the create is about to be issued after a started container
\* of the same name was found and removed
C10_Witness ==
    \E r \in Slots :
        /\ req[r].pc = "sc_create"
        /\ \E o \in req[r].old : Started(o) /\ o.name = UserApp[req[r].name]

\* this step is the one in which the sync or the start of request r fails
SyncOrStartFails(r) == req[r].pc \in {"sc_put", "sc_start"} /\ req'[r].status = 500

\* the entries list_apps() has for n over containers cs and directories ds
EntriesOf(cs, ds, d, n) == {e \in AppsOf(cs, ds, d) : e.name = n}

\* C12: when start_app_container has created its container and the sync or
\* the start then fails, that step ends the request (no retry), removes no
\* container and changes no directory; the created container is still there
\* in the status the runtime gives it ('created'), and list_apps() then
\* reports n with that status, not 'running'.
C12_NoRollback ==
    [][ \A r \in Slots :
          SyncOrStartFails(r) =>
              /\ req'[r].pc = "done"
              /\ containers' = containers
              /\ dirs' = dirs
              /\ \E c \in containers' :
                    /\ c.id = req[r].cid
                    /\ c.name = UserApp[req[r].name]
                    /\ c.status = "created"
              /\ EntriesOf(containers', dirs', BASE_DOMAIN', req[r].name) # {}
              /\ \A e \in EntriesOf(containers', dirs', BASE_DOMAIN', req[r].name) :
                    e.status = "created" /\ e.status # "running"
      ]_vars

\* C12 reached: the start failed after the files were put, and the index
\* lists the app as 'created'
C12_Witness ==
    \E r \in Slots :
        /\ Responded(r, "index", 200)
        /\ \E e \in req[r].apps : e.status = "created"
        /\ \E c \in containers : c.status = "created" /\ c.files # EmptyDir

\* the app containers (all but the proxy) of a set of containers
AppsAmong(cs) == {c \in cs : c.name # PROXY_NAME}

\* C13: a container comes into being not started and with an empty working
\* directory; its working directory changes only in the sync of the request
\* that created it, before it is started, and then holds the full content
\* of that request's directory, app.py included; it is started only when it
\* has been synced, and the start leaves its files as they are.  So no
\* container is ever started with an empty or partial working directory.
C13_StartAfterSync ==
    [][ \A after \in AppsAmong(containers') :
          LET prev == {c \in containers : c.id = after.id}
          IN  /\ prev = {} => (after.status = "created" /\ after.files = EmptyDir)
              /\ \A before \in prev :
                    /\ (Started(after) /\ ~Started(before)) =>
                          /\ before.status = "created"
                          /\ before.files # EmptyDir
                          /\ after.files = before.files
                    /\ after.files # before.files =>
                          /\ before.files = EmptyDir
                          /\ before.status = "created" /\ after.status = "created"
                          /\ \E r \in Slots :
                                /\ req[r].cid = after.id
                                /\ req[r].pc = "sc_put"
                                /\ after.name = UserApp[req[r].name]
                                /\ after.files = dirs[req[r].name]
                                /\ APP_PY \in DOMAIN after.files
      ]_vars

\* C13 reached: a started container still holds what its directory had when
\* the sync ran, while the directory has newer code
C13_Witness ==
    \E n \in DOMAIN dirs : \E c \in AppContainers(n) :
        /\ Started(c)
        /\ APP_PY \in DOMAIN c.files
        /\ HasAppPy(dirs, n)
        /\ c.files # dirs[n]

\* this step is the first of a new_app request in slot r, and the name it
\* drew has a directory
CreateCollides(r) ==
    req[r].pc = "idle" /\ req'[r].op = "new_app" /\ req'[r].name \in DOMAIN dirs

\* C14: when new_app draws a name whose directory exists, the request ends
\* at once as a failed request with FileExistsError; no directory, no file
\* and no container changes in that step, so the code of the existing app is
\* not overwritten and its container is neither removed nor replaced.
C14_CollisionFails ==
    [][ \A r \in Slots :
          CreateCollides(r) =>
              /\ req'[r].pc = "done"
              /\ req'[r].status = 500
              /\ req'[r].err = "FileExistsError"
              /\ dirs' = dirs
              /\ containers' = containers
      ]_vars

\* C14 reached: new_app failed on the name of an app that has edited code
\* and a started container
C14_Witness ==
    \E r \in Slots :
        /\ Responded(r, "new_app", 500)
        /\ req[r].err = "FileExistsError"
        /\ HasAppPy(dirs, req[r].name)
        /\ dirs[req[r].name][APP_PY] # TextWrite(DEFAULT_APP_CODE)
        /\ \E c \in AppContainers(req[r].name) : Started(c)

\* directory n or its source file is absent
NoSourceFile(n) == n \notin DOMAIN dirs \/ APP_PY \notin DOMAIN dirs[n]

\* this step is the first of an edit_app request (GET or POST) in slot r
EditEnters(r) == req[r].pc = "idle" /\ req'[r].op \in {"edit_get", "edit_post"}

\* C15: an edit_app request, GET or POST, for a name whose directory or
\* app.py is absent ends at once with the 404 of line 76, and that step
\* changes no directory, no file and no container, whether or not a
\* container named user-app-n exists (one can, when a delete has overlapped
\* with an edit).
C15_EditAbsentIsNotFound ==
    [][ \A r \in Slots :
          (EditEnters(r) /\ NoSourceFile(req'[r].name)) =>
              /\ req'[r].pc = "done"
              /\ req'[r].status = 404
              /\ req'[r].err = ""
              /\ dirs' = dirs /\ root' = root
              /\ containers' = containers
      ]_vars

\* C15 reached: a POST for a name that has a started container and no
\* directory was answered 404
C15_Witness ==
    \E r \in Slots :
        /\ Responded(r, "edit_post", 404)
        /\ req[r].name \notin DOMAIN dirs
        /\ \E c \in AppContainers(req[r].name) : Started(c)

\* request r is inside start_app_container
InStart(r) == req[r].pc \in {"sc_get", "sc_remove", "sc_create", "sc_put", "sc_start"}

\* C16: with requests one at a time, in every reachable state, the states
\* inside a handler and after a failed request included, every container
\* named user-app-n has its directory n.  The order of the handlers gives
\* it: start_app_container runs only while n has its app.py (new_app has
\* written it, edit_app has found it), and delete_app comes to the directory
\* only when no container of that name is left.
C16_ContainerHasDirectory ==
    /\ \A c \in AppsAmong(containers) : \E n \in DOMAIN dirs : c.name = UserApp[n]
    /\ \A r \in Slots :
         /\ InStart(r) => HasAppPy(dirs, req[r].name)
         /\ req[r].pc = "del_rmtree" => AppContainers(req[r].name) = {}

\* C16 reached: inside delete_app, the container has been removed and the
\* directory is still there
C16_Witness ==
    \E r \in Slots :
        /\ req[r].pc = "del_rmtree"
        /\ req[r].old # {}
        /\ HasAppPy(dirs, req[r].name)

\* this step is the lookup of line 151 or the remove of line 152 of the
\* delete_app request in slot r, and it fails the request
DeleteMeetsRuntimeFailure(r) ==
    /\ DeleteStep(r)
    /\ req[r].pc \in {"idle", "del_remove"}
    /\ req'[r].status = 500

\* C19: a delete_app that does not get the container of n removed (the
\* runtime fails at the lookup or at the remove, with an error other than
\* not-found) ends in that step as a failed request, with no retry; the code
\* store is as it was, so directory n and its code exist as before and
\* list_apps() shows n as before.  A delete_app comes to the directory only
\* from a lookup that found no container or from a remove that succeeded.
C19_DeleteFailureKeepsCode ==
    [][ \A r \in Slots :
          /\ DeleteMeetsRuntimeFailure(r) =>
                /\ req'[r].pc = "done"
                /\ req'[r].status = 500
                /\ req'[r].err = "APIError"
                /\ dirs' = dirs
                /\ containers' = containers
                /\ ListedIn(containers', dirs', BASE_DOMAIN') = ListedIn(containers, dirs, BASE_DOMAIN)
          /\ (DeleteStep(r) /\ req'[r].pc = "del_rmtree") =>
                /\ dirs' = dirs
                /\ \/ req[r].pc = "idle" /\ AppContainers(req'[r].name) = {}
                   \/ /\ req[r].pc = "del_remove"
                      /\ \A o \in req[r].old : \A c \in containers' : c.id # o.id
          /\ (DeleteStep(r) /\ dirs' # dirs) => req[r].pc = "del_rmtree"
      ]_vars

\* C19 reached: delete_app failed at the remove of a container it had
\* found, and the app is still listed with its code
C19_Witness ==
    \E r \in Slots :
        /\ Responded(r, "delete_app", 500)
        /\ req[r].err = "APIError"
        /\ req[r].old # {}
        /\ HasAppPy(dirs, req[r].name)
        /\ req[r].name \in ListedNames

\* this step is the create of request r, and the runtime refuses the name
CreateConflicts(r) == req[r].pc = "sc_create" /\ req'[r].err = "Conflict"

\* C11: when requests overlap, two start_app_container calls for one name
\* can both find no container and both issue the create (the witness).  No
\* step leaves two containers with one name; the create that comes second
\* is refused, that request ends there as a failed request, and the
\* refused create leaves the containers as they were, with exactly one
\* named user-app-n.
C11_SecondCreateFails ==
    [][ /\ \A c1, c2 \in containers' : c1.name = c2.name => c1 = c2
        /\ \A r \in Slots :
             CreateConflicts(r) =>
                 /\ req'[r].pc = "done"
                 /\ req'[r].status = 500
                 /\ containers' = containers
                 /\ Cardinality({c \in containers' : c.name = UserApp[req[r].name]}) = 1
      ]_vars

\* C11 reached: two requests both found no container; one has created
\* its container, the create of the other was refused
C11_Witness ==
    \E r1, r2 \in Slots :
        /\ r1 # r2
        /\ req[r1].name = req[r2].name
        /\ req[r1].err = "Conflict" /\ req[r1].old = {}
        /\ req[r2].old = {} /\ req[r2].cid # 0
        /\ \E c \in AppContainers(req[r2].name) : c.id = req[r2].cid

\* every request has completed, and none that still holds its response failed
AllCompleted ==
    \A r \in Slots : req[r].pc = "idle" \/ (req[r].pc = "done" /\ req[r].status = 302)

\* C17, as stated: when a delete(n) has overlapped with an edit(n) or a
\* create and all requests have completed, every container named user-app-n
\* has its directory n, so list_apps() can show it.
C17_NoOrphanOnceCompleted ==
    AllCompleted =>
        \A c \in AppsAmong(containers) : \E n \in DOMAIN dirs : c.name = UserApp[n]

\* no request is inside its handler
Quiescent == \A r \in Slots : req[r].pc \in {"idle", "done"}

=============================================================================
